---- MODULE Spec2Model ----
(***************************************************************************)
(* Device-path chains of src/proto/loaded_image/device_path.rs: the node   *)
(* codec (stamp, create, len), the chain navigator (next, walk), the chain *)
(* builders (new, new1, new2, append), the owning handle (DevicePathBox)   *)
(* and the Debug rendering of nodes, over byte buffers.                    *)
(*                                                                         *)
(* A buffer is a sequence of bytes; the byte at pointer offset k of a      *)
(* buffer mem is mem[k+1].  A node reference (&DevicePath) is a pair of a  *)
(* memory region and an offset into it.                                    *)
(***************************************************************************)
EXTENDS Integers, Sequences, FiniteSets, TLC

VARIABLES heap, fault, smem, sarg, spc, wmem, wpos, wvisited, wlast, wpc,
          boxes, freed, dval, dmem, dout, dpc

vars == <<heap, fault, smem, sarg, spc, wmem, wpos, wvisited, wlast, wpc,
          boxes, freed, dval, dmem, dout, dpc>>

\* ------------------------------------------------------------------ bounds
\* Longest payload handed to a builder.
MaxPayloadLen == 2
\* Longest payload handed to stamp on its own.
MaxStampLen == 2
\* Largest buffer offset stamp is applied at on its own.
MaxStampOff == 2
\* Most nodes in a memory region the navigator is started on.
MaxNavNodes == 2
\* Most headers in a memory region of unvalidated bytes.
MaxRawNodes == 2
\* How far past the longest payload the length field can hold a payload goes.
MaxOver == 2

\* ------------------------------------------------------- program constants
\* size_of::<DevicePath>(): device_type, sub_type and length: [u8; 2].
HeaderSize == 4
Hardware == 1
ACPI == 2
Messaging == 3
Media == 4
BIOSBootSpec == 5
End == 127
EndInstance == 1
EndEntire == 255
PCI == 1
MAC == 11
IPv4 == 12
URI == 24
Ethernet == 1
IEEE802 == 6
TCP == 6
UDP == 17
\* u16 arithmetic: "as u16" keeps the low 16 bits.
U16Mod == 65536

DeviceType == {Hardware, ACPI, Messaging, Media, BIOSBootSpec, End}

\* The result of next when there is no further node (Option::None).
None == -1

\* ------------------------------------------------------------- node codec
AsU16(n) == n % U16Mod

\* u16::to_le_bytes
to_le_bytes(n) == <<n % 256, n \div 256>>

\* u16::from_le_bytes
from_le_bytes(b) == b[1] + 256 * b[2]

\* The fields of the DevicePath header at offset off of the region mem.
device_type(mem, off) == mem[off + 1]
sub_type(mem, off) == mem[off + 2]
length(mem, off) == <<mem[off + 3], mem[off + 4]>>

\* DevicePath::len
len(mem, off) == from_le_bytes(length(mem, off))

\* DevicePath::stamp, on the bytes of mem that lie inside it: the header at p,
\* then data.len() bytes of data.  The length is written by ptr::write of a
\* u16, low byte first on the little-endian targets of the firmware.
stampMutBigEndian(mem, p, dt, st, data) ==
    LET total == AsU16(HeaderSize + Len(data))
        bytes == <<dt, st, total \div 256, total % 256>> \o data
    IN  [i \in 1..Len(mem) |->
            IF i > p /\ i <= p + Len(bytes) THEN bytes[i - p] ELSE mem[i]]

stamp(mem, p, dt, st, data) ==
    LET total == AsU16(HeaderSize + Len(data))
        bytes == <<dt, st>> \o to_le_bytes(total) \o data
    IN  [i \in 1..Len(mem) |->
            IF i > p /\ i <= p + Len(bytes) THEN bytes[i - p] ELSE mem[i]]

\* DevicePathPayload::create
create(dt, st, payload) ==
    [path |-> [device_type |-> dt, sub_type |-> st,
               length |-> to_le_bytes(AsU16(HeaderSize + Len(payload)))],
     payload |-> payload]

\* DevicePathPayload::len
payload_len(x) == from_le_bytes(x.path.length)

\* -------------------------------------------------------- chain navigator
\* DevicePath::next: the offset of the next node, or None.
nextMutErrContinues(mem, off) ==
    IF device_type(mem, off) = End /\ sub_type(mem, off) = EndEntire
        THEN None
        ELSE off + len(mem, off)

nextMutInstanceEnds(mem, off) ==
    IF device_type(mem, off) = End THEN None ELSE off + len(mem, off)

next(mem, off) ==
    IF device_type(mem, off) = End
        THEN IF sub_type(mem, off) = EndInstance
                THEN off + len(mem, off)
                ELSE None
        ELSE off + len(mem, off)

\* A header read at off stays inside the region.
headerInside(mem, off) == off >= 0 /\ off + HeaderSize <= Len(mem)

\* DevicePath::walk: the offsets f is called on, in order.  st is "end" when
\* next returned None, "oob" when the walk reached a header that does not lie
\* inside the region, "loop" when a node of length 0 makes the recursion
\* unbounded.
RECURSIVE walkFrom(_, _, _)
walkFrom(mem, off, fuel) ==
    IF ~headerInside(mem, off) THEN [offs |-> <<>>, st |-> "oob"]
    ELSE IF fuel = 0 THEN [offs |-> <<>>, st |-> "loop"]
    ELSE LET n == next(mem, off)
         IN  IF n = None THEN [offs |-> <<off>>, st |-> "end"]
             ELSE LET rest == walkFrom(mem, n, fuel - 1)
                  IN  [offs |-> <<off>> \o rest.offs, st |-> rest.st]

walk(mem, off) == walkFrom(mem, off, Len(mem) + 1)

RECURSIVE SumLen(_, _)
SumLen(mem, offs) ==
    IF offs = <<>> THEN 0 ELSE len(mem, Head(offs)) + SumLen(mem, Tail(offs))

\* The accumulation "a.walk(&mut |x| alen += x.len())" of append.
chain_byte_length(mem) == SumLen(mem, walk(mem, 0).offs)

\* ---------------------------------------------------------- chain builder
\* alloc(Layout::from_size_align_unchecked(sz, 0)): sz bytes of uninitialised
\* memory; junk stands for whatever the bytes hold.
alloc(sz, junk) == [i \in 1..sz |-> junk]

\* DevicePath::new: the bytes of the buffer it returns.
new(dt, st, data, junk) ==
    LET sz == HeaderSize + Len(data)
    IN  stamp(alloc(sz, junk), 0, dt, st, data)

\* DevicePath::new1
new1(x, junk) ==
    LET xl == payload_len(x)
        sz == payload_len(x) + HeaderSize
        p1 == stamp(alloc(sz, junk), 0,
                    x.path.device_type, x.path.sub_type, x.payload)
    IN  stamp(p1, xl, End, EndEntire, <<>>)

\* DevicePath::new2
new2MutSwapped(x, y, junk) ==
    LET xl == payload_len(x)
        yl == payload_len(y)
        sz == xl + yl + HeaderSize
        p1 == stamp(alloc(sz, junk), 0,
                    y.path.device_type, y.path.sub_type, y.payload)
        p2 == stamp(p1, yl, x.path.device_type, x.path.sub_type, x.payload)
    IN  stamp(p2, xl + yl, End, EndEntire, <<>>)

new2MutEndAtXl(x, y, junk) ==
    LET xl == payload_len(x)
        yl == payload_len(y)
        sz == xl + yl + HeaderSize
        p1 == stamp(alloc(sz, junk), 0,
                    x.path.device_type, x.path.sub_type, x.payload)
        p2 == stamp(p1, xl, y.path.device_type, y.path.sub_type, y.payload)
    IN  stamp(p2, xl, End, EndEntire, <<>>)

new2(x, y, junk) ==
    LET xl == payload_len(x)
        yl == payload_len(y)
        sz == xl + yl + HeaderSize
        p1 == stamp(alloc(sz, junk), 0,
                    x.path.device_type, x.path.sub_type, x.payload)
        p2 == stamp(p1, xl, y.path.device_type, y.path.sub_type, y.payload)
    IN  stamp(p2, xl + yl, End, EndEntire, <<>>)

\* DevicePath::append on the regions a and b point into: the bytes of the
\* buffer it returns.
appendMutKeepsEnd(a, b, junk) ==
    LET alen == chain_byte_length(a)
        blen == chain_byte_length(b)
        off  == alen
    IN  [i \in 1..(alen + blen) |->
            IF i <= off THEN a[i] ELSE b[i - off]]

appendMutSwapped(a, b, junk) ==
    LET alen == chain_byte_length(a)
        blen == chain_byte_length(b)
        off  == blen - HeaderSize
    IN  [i \in 1..(alen + blen - HeaderSize) |->
            IF i <= off THEN b[i] ELSE a[i - off]]

appendMutDoubleSub(a, b, junk) ==
    LET alen == chain_byte_length(a)
        blen == chain_byte_length(b)
        off  == alen - HeaderSize
    IN  [i \in 1..(off + blen - HeaderSize) |->
            IF i <= off THEN a[i] ELSE b[i - off]]

appendMutLateOff(a, b, junk) ==
    LET alen == chain_byte_length(a)
        blen == chain_byte_length(b)
        sz   == alen + blen - HeaderSize
        off  == alen
    IN  [i \in 1..sz |-> IF i <= off THEN a[i] ELSE b[i - off]]

append(a, b, junk) ==
    LET alen == chain_byte_length(a)
        blen == chain_byte_length(b)
        sz   == alen + blen - HeaderSize
        off  == alen - HeaderSize
        p0   == alloc(sz, junk)
        p1   == [i \in 1..sz |-> IF i <= off THEN a[i] ELSE p0[i]]
    IN  [i \in 1..sz |-> IF i > off /\ i <= off + blen THEN b[i - off] ELSE p1[i]]

\* append stays inside defined behaviour on the regions a and b: both walks
\* reach a node with no next inside the region, the usize subtractions do not
\* wrap, and both copies read inside the regions.
appendDefined(a, b) ==
    /\ walk(a, 0).st = "end"
    /\ walk(b, 0).st = "end"
    /\ chain_byte_length(a) >= HeaderSize
    /\ chain_byte_length(a) - HeaderSize <= Len(a)
    /\ chain_byte_length(b) <= Len(b)

\* ------------------------------------------------------------------ state
\* The chains a client holds: two it builds and one it appends.
Slots == {"a", "b", "r"}
Built == {"a", "b"}

Pattern(k) == [i \in 1..k |-> 17 * i]

Payloads(n) == {Pattern(k) : k \in 0..n}

\* The tags of ordinary nodes and the sub-types of End nodes handed to the
\* builders; 2 is a sub-type EndPathSubType does not name.  End nodes carry
\* the empty payload ().
OrdinaryTags == {<<Hardware, PCI>>, <<Messaging, URI>>}
EndSubTypes == {EndInstance, EndEntire, 2}

Nodes ==
    {create(t[1], t[2], d) : t \in OrdinaryTags, d \in Payloads(MaxPayloadLen)}
    \cup {create(End, st, <<>>) : st \in EndSubTypes}

\* What the allocator's fresh memory may hold.
Junk == {0, 170}

\* What may lie in memory behind an allocation: nothing readable, or bytes
\* that happen to form a terminator.
Behind == {<<>>, <<End, EndEntire, 4, 0>>}

NoNode == create(0, 0, <<>>)

NoBuf == [state |-> "none", size |-> 0, align |-> 0, mem |-> <<>>,
          op |-> "none", x |-> NoNode, y |-> NoNode, a |-> "-", b |-> "-"]

Buf(mem, op, x, y, a, b) ==
    [state |-> "live", size |-> Len(mem), align |-> 0, mem |-> mem,
     op |-> op, x |-> x, y |-> y, a |-> a, b |-> b]

StampIdle ==
    /\ smem = <<>>
    /\ sarg = [mem |-> <<>>, p |-> 0, dt |-> 0, st |-> 0, data |-> <<>>]
    /\ spc = "idle"

WalkIdle ==
    /\ wmem = <<>>
    /\ wpos = 0
    /\ wvisited = <<>>
    /\ wlast = [from |-> None, to |-> None]
    /\ wpc = "idle"

\* The variables holding DevicePathBox handles, none of which exists yet.
Handles == {"h1", "h2", "h3"}

BoxIdle ==
    /\ boxes = [h \in Handles |-> "unset"]
    /\ freed = [s \in Slots |-> <<>>]

DescribeIdle ==
    /\ dval = [kind |-> "none"]
    /\ dmem = <<>>
    /\ dout = <<>>
    /\ dpc = "idle"

Init ==
    /\ heap = [s \in Slots |-> NoBuf]
    /\ fault = FALSE
    /\ StampIdle
    /\ WalkIdle
    /\ BoxIdle
    /\ DescribeIdle

\* let s = DevicePath::new(dt, st, data)
CallNew(s, dt, st, data, junk) ==
    /\ ~fault
    /\ heap[s].state = "none"
    /\ heap' = [heap EXCEPT ![s] =
                  Buf(new(dt, st, data, junk), "new", create(dt, st, data), NoNode, "-", "-")]
    /\ UNCHANGED <<fault, smem, sarg, spc, wmem, wpos, wvisited, wlast, wpc,
                 boxes, freed, dval, dmem, dout, dpc>>

\* let s = DevicePath::new1(x)
CallNew1(s, x, junk) ==
    /\ ~fault
    /\ heap[s].state = "none"
    /\ heap' = [heap EXCEPT ![s] = Buf(new1(x, junk), "new1", x, NoNode, "-", "-")]
    /\ UNCHANGED <<fault, smem, sarg, spc, wmem, wpos, wvisited, wlast, wpc,
                 boxes, freed, dval, dmem, dout, dpc>>

\* let s = DevicePath::new2(x, y)
CallNew2(s, x, y, junk) ==
    /\ ~fault
    /\ heap[s].state = "none"
    /\ heap' = [heap EXCEPT ![s] = Buf(new2(x, y, junk), "new2", x, y, "-", "-")]
    /\ UNCHANGED <<fault, smem, sarg, spc, wmem, wpos, wvisited, wlast, wpc,
                 boxes, freed, dval, dmem, dout, dpc>>

\* let r = DevicePath::append(&a, &b).  ga and gb are the memory behind the two
\* allocations, which the walks and copies read when a chain has no terminator
\* inside its buffer; a read of unreadable memory ends the program.
CallAppend(a, b, ga, gb, junk) ==
    /\ ~fault
    /\ heap[a].state = "live"
    /\ heap[b].state = "live"
    /\ heap["r"].state = "none"
    /\ LET am == heap[a].mem \o ga
           bm == heap[b].mem \o gb
       IN  IF appendDefined(am, bm)
              THEN /\ heap' = [heap EXCEPT !["r"] =
                                Buf(append(am, bm, junk), "append", NoNode, NoNode, a, b)]
                   /\ UNCHANGED fault
              ELSE /\ fault' = TRUE
                   /\ UNCHANGED heap
    /\ UNCHANGED <<smem, sarg, spc, wmem, wpos, wvisited, wlast, wpc,
                 boxes, freed, dval, dmem, dout, dpc>>

Next ==
    \/ \E s \in Built, x \in Nodes, j \in Junk :
          CallNew(s, x.path.device_type, x.path.sub_type, x.payload, j)
    \/ \E s \in Built, x \in Nodes, j \in Junk : CallNew1(s, x, j)
    \/ \E s \in Built, x \in Nodes, y \in Nodes, j \in Junk : CallNew2(s, x, y, j)
    \/ \E a \in Built, b \in Built, ga \in Behind, gb \in Behind, j \in Junk :
          CallAppend(a, b, ga, gb, j)

Spec == Init /\ [][Next]_vars

\* ------------------------------------------------- stamp on its own buffer
\* A payload long enough for total_length to need its high byte.
BigStampLen == 256

StampTags == {<<dt, st>> : dt \in DeviceType, st \in {EndInstance, URI, EndEntire}}

StampPayloads == Payloads(MaxStampLen) \cup {[i \in 1..BigStampLen |-> 1 + (i % 101)]}

StampBufLen == MaxStampOff + HeaderSize + BigStampLen + 1

InitStamp ==
    /\ heap = [s \in Slots |-> NoBuf]
    /\ fault = FALSE
    /\ WalkIdle
    /\ BoxIdle
    /\ DescribeIdle
    /\ sarg \in {[mem |-> alloc(StampBufLen, j), p |-> p, dt |-> t[1], st |-> t[2],
                  data |-> d] :
                    j \in Junk, p \in 0..MaxStampOff, t \in StampTags, d \in StampPayloads}
    /\ smem = sarg.mem
    /\ spc = "ready"

\* Self::stamp(p, device_type, sub_type, data) on the buffer smem.
CallStamp ==
    /\ spc = "ready"
    /\ smem' = stamp(smem, sarg.p, sarg.dt, sarg.st, sarg.data)
    /\ spc' = "done"
    /\ UNCHANGED <<heap, fault, sarg, wmem, wpos, wvisited, wlast, wpc,
                 boxes, freed, dval, dmem, dout, dpc>>

NextStamp == CallStamp

SpecStamp == InitStamp /\ [][NextStamp]_vars

\* ------------------------------------- stamp with the longest payloads
\* Payloads from the longest one whose total_length fits the 16-bit field
\* (65531 bytes) to MaxOver bytes more.
LongPayloads ==
    {[i \in 1..(U16Mod - HeaderSize - 1 + k) |-> 1 + (i % 101)] : k \in 0..MaxOver}

\* The buffer is the one DevicePath::new allocates for the payload:
\* size_of::<DevicePath>() + data.len() bytes, stamped at its start.
InitLong ==
    /\ heap = [s \in Slots |-> NoBuf]
    /\ fault = FALSE
    /\ WalkIdle
    /\ BoxIdle
    /\ DescribeIdle
    /\ sarg \in {[junk |-> j, p |-> 0, dt |-> t[1], st |-> t[2], data |-> d] :
                    j \in Junk, t \in StampTags, d \in LongPayloads}
    /\ smem = alloc(HeaderSize + Len(sarg.data), sarg.junk)
    /\ spc = "ready"

SpecLong == InitLong /\ [][NextStamp]_vars

\* ------------------------------------------------ walk over a memory region
\* The nodes of the regions the navigator is started on: any tag, with or
\* without a terminator at the end.
NavTags == {<<Hardware, PCI>>, <<Media, 99>>, <<End, EndInstance>>,
            <<End, EndEntire>>, <<End, 2>>}

NavNodes == {create(t[1], t[2], d) : t \in NavTags, d \in Payloads(1)}

\* The nodes ns laid out back to back.
RECURSIVE Region(_)
Region(ns) ==
    IF ns = <<>> THEN <<>>
    ELSE LET x == Head(ns)
         IN  stamp(alloc(payload_len(x), 0), 0,
                   x.path.device_type, x.path.sub_type, x.payload)
             \o Region(Tail(ns))

NavRegions == {Region(ns) : ns \in UNION {[1..k -> NavNodes] : k \in 1..MaxNavNodes}}

InitNav ==
    /\ heap = [s \in Slots |-> NoBuf]
    /\ fault = FALSE
    /\ StampIdle
    /\ BoxIdle
    /\ DescribeIdle
    /\ wmem \in NavRegions
    /\ wpos = 0
    /\ wvisited = <<>>
    /\ wlast = [from |-> None, to |-> None]
    /\ wpc = "visit"

\* One level of DevicePath::walk on the node at wpos: f(self), then
\* self.next(), then the recursive call on the node next returned.  When next
\* returns the node it was called on (a total_length of 0) every further level
\* does the same and the recursion has no end: wpc is "loop".
WalkStep ==
    /\ wpc = "visit"
    /\ wvisited' = wvisited \o <<wpos>>
    /\ LET n == next(wmem, wpos)
       IN  /\ wlast' = [from |-> wpos, to |-> n]
           /\ IF n = None
                 THEN wpc' = "done" /\ UNCHANGED wpos
                 ELSE /\ wpos' = n
                      /\ wpc' = IF n = wpos THEN "loop"
                                ELSE IF headerInside(wmem, n) THEN "visit" ELSE "oob"
    /\ UNCHANGED <<heap, fault, smem, sarg, spc, wmem,
                 boxes, freed, dval, dmem, dout, dpc>>

NextNav == WalkStep

SpecNav == InitNav /\ [][NextNav]_vars

\* -------------------------------------- walk over unvalidated memory
\* The length fields found in memory that nothing has validated: below the
\* header size, the header size, and above it.
RawTotals == {0, 3, HeaderSize, HeaderSize + 1}

RawTags == {<<Hardware, PCI>>, <<End, EndInstance>>, <<End, EndEntire>>}

\* A header with the length field n, followed by the payload bytes n allows.
RawNode(t, n) ==
    <<t[1], t[2]>> \o to_le_bytes(n) \o
    (IF n > HeaderSize THEN Pattern(n - HeaderSize) ELSE <<>>)

RawNodes == {RawNode(t, n) : t \in RawTags, n \in RawTotals}

RECURSIVE Concat(_)
Concat(ns) == IF ns = <<>> THEN <<>> ELSE Head(ns) \o Concat(Tail(ns))

\* The bytes that may follow the last header: none, or too few for a header.
RawTails == {<<>>, <<End, EndEntire>>}

RawRegions ==
    {Concat(ns) \o t : ns \in UNION {[1..k -> RawNodes] : k \in 1..MaxRawNodes},
                       t \in RawTails}

InitRaw ==
    /\ heap = [s \in Slots |-> NoBuf]
    /\ fault = FALSE
    /\ StampIdle
    /\ BoxIdle
    /\ DescribeIdle
    /\ wmem \in RawRegions
    /\ wpos = 0
    /\ wvisited = <<>>
    /\ wlast = [from |-> None, to |-> None]
    /\ wpc = "visit"

SpecRaw == InitRaw /\ [][NextNav]_vars

\* ------------------------------------------ owning handles (DevicePathBox)
\* The node the builders are given where handles are followed.
OwnNode == create(Hardware, PCI, Pattern(MaxPayloadLen))

\* Layout::new::<DevicePath>(): four one-byte-aligned bytes.
HeaderLayout == [size |-> HeaderSize, align |-> 1]

\* Drop::drop of the box whose pointer is s: the dealloc calls it makes.
dropMutLeaks(s) == <<>>

drop(s) == <<[ptr |-> s, layout |-> HeaderLayout]>>

\* The dealloc calls cs applied: each is logged against the buffer it names,
\* and a buffer named at least once is no longer allocated.
RECURSIVE LogOf(_, _)
LogOf(cs, s) ==
    IF cs = <<>> THEN <<>>
    ELSE (IF Head(cs).ptr = s THEN <<Head(cs).layout>> ELSE <<>>) \o LogOf(Tail(cs), s)

\* The heap once append has put its result, the bytes mem, at the fresh
\* address r; a and b are the addresses of the two chains it read.
appendHeapMutInPlace(h, a, b, r, mem) ==
    [h EXCEPT ![a] = Buf(mem, "append", NoNode, NoNode, a, b)]

appendHeap(h, a, b, r, mem) ==
    [h EXCEPT ![r] = Buf(mem, "append", NoNode, NoNode, a, b)]

\* (*h).sub_type = v on the &mut DevicePath that deref_mut hands out: the
\* sub_type byte of the first node of the chain is overwritten.
deref_mut_sub_type(mem, v) == [mem EXCEPT ![2] = v]

InitOwn ==
    /\ heap = [s \in Slots |-> NoBuf]
    /\ fault = FALSE
    /\ StampIdle
    /\ WalkIdle
    /\ BoxIdle
    /\ DescribeIdle

\* let h = DevicePath::new(dt, st, data), the allocator answering with s
OwnNew(h, s, x, junk) ==
    /\ ~fault
    /\ boxes[h] = "unset"
    /\ heap[s].state = "none"
    /\ heap' = [heap EXCEPT ![s] =
                  Buf(new(x.path.device_type, x.path.sub_type, x.payload, junk),
                      "new", x, NoNode, "-", "-")]
    /\ boxes' = [boxes EXCEPT ![h] = s]
    /\ UNCHANGED <<fault, smem, sarg, spc, wmem, wpos, wvisited, wlast, wpc,
                   freed, dval, dmem, dout, dpc>>

\* let h = DevicePath::new1(x)
OwnNew1(h, s, x, junk) ==
    /\ ~fault
    /\ boxes[h] = "unset"
    /\ heap[s].state = "none"
    /\ heap' = [heap EXCEPT ![s] = Buf(new1(x, junk), "new1", x, NoNode, "-", "-")]
    /\ boxes' = [boxes EXCEPT ![h] = s]
    /\ UNCHANGED <<fault, smem, sarg, spc, wmem, wpos, wvisited, wlast, wpc,
                   freed, dval, dmem, dout, dpc>>

\* let h = DevicePath::new2(x, y)
OwnNew2(h, s, x, y, junk) ==
    /\ ~fault
    /\ boxes[h] = "unset"
    /\ heap[s].state = "none"
    /\ heap' = [heap EXCEPT ![s] = Buf(new2(x, y, junk), "new2", x, y, "-", "-")]
    /\ boxes' = [boxes EXCEPT ![h] = s]
    /\ UNCHANGED <<fault, smem, sarg, spc, wmem, wpos, wvisited, wlast, wpc,
                   freed, dval, dmem, dout, dpc>>

\* let h = DevicePath::append(&ha, &hb): both arguments are borrowed, and
\* may be the same chain
OwnAppend(h, ha, hb, r, ga, gb, junk) ==
    /\ ~fault
    /\ boxes[h] = "unset"
    /\ boxes[ha] \in Slots
    /\ boxes[hb] \in Slots
    /\ heap[r].state = "none"
    /\ LET a  == boxes[ha]
           b  == boxes[hb]
           am == heap[a].mem \o ga
           bm == heap[b].mem \o gb
       IN  IF appendDefined(am, bm)
              THEN /\ heap' = appendHeap(heap, a, b, r, append(am, bm, junk))
                   /\ boxes' = [boxes EXCEPT ![h] = r]
                   /\ UNCHANGED fault
              ELSE /\ fault' = TRUE
                   /\ UNCHANGED <<heap, boxes>>
    /\ UNCHANGED <<smem, sarg, spc, wmem, wpos, wvisited, wlast, wpc,
                   freed, dval, dmem, dout, dpc>>

\* let h2 = h1: the box moves, and h1 can no longer be used
OwnMove(h1, h2) ==
    /\ ~fault
    /\ boxes[h1] \in Slots
    /\ boxes[h2] = "unset"
    /\ boxes' = [boxes EXCEPT ![h2] = boxes[h1], ![h1] = "moved"]
    /\ UNCHANGED <<heap, fault, smem, sarg, spc, wmem, wpos, wvisited, wlast, wpc,
                   freed, dval, dmem, dout, dpc>>

\* h goes out of scope: Drop::drop runs on the box it holds
OwnDrop(h) ==
    /\ ~fault
    /\ boxes[h] \in Slots
    /\ LET cs == drop(boxes[h])
       IN  /\ freed' = [s \in Slots |-> freed[s] \o LogOf(cs, s)]
           /\ heap' = [s \in Slots |->
                         IF LogOf(cs, s) # <<>> THEN [heap[s] EXCEPT !.state = "freed"]
                         ELSE heap[s]]
    /\ boxes' = [boxes EXCEPT ![h] = "dropped"]
    /\ UNCHANGED <<fault, smem, sarg, spc, wmem, wpos, wvisited, wlast, wpc,
                   dval, dmem, dout, dpc>>

\* h.sub_type = v, through DerefMut for DevicePathBox
OwnDerefMut(h, v) ==
    /\ ~fault
    /\ boxes[h] \in Slots
    /\ heap' = [heap EXCEPT ![boxes[h]].mem = deref_mut_sub_type(@, v)]
    /\ UNCHANGED <<fault, smem, sarg, spc, wmem, wpos, wvisited, wlast, wpc,
                   boxes, freed, dval, dmem, dout, dpc>>

NextOwn ==
    \/ \E h \in Handles, s \in Slots, j \in Junk : OwnNew(h, s, OwnNode, j)
    \/ \E h \in Handles, s \in Slots, j \in Junk : OwnNew1(h, s, OwnNode, j)
    \/ \E h \in Handles, s \in Slots, j \in Junk : OwnNew2(h, s, OwnNode, OwnNode, j)
    \/ \E h \in Handles, ha \in Handles, hb \in Handles, r \in Slots,
          ga \in Behind, gb \in Behind, j \in Junk : OwnAppend(h, ha, hb, r, ga, gb, j)
    \/ \E h1 \in Handles, h2 \in Handles : OwnMove(h1, h2)
    \/ \E h \in Handles : OwnDrop(h)
    \/ \E h \in Handles : OwnDerefMut(h, EndEntire)

SpecOwn == InitOwn /\ [][NextOwn]_vars

\* ------------------------------------------------------ typed payloads
\* The fields of the #[repr(C)] payload structs, in declaration order: name,
\* size and alignment in bytes, and whether the field is an integer (stored
\* little-endian) or an array of bytes.
F(n, sz, al, ty) == [name |-> n, size |-> sz, align |-> al, ty |-> ty]

Fields(kind) ==
    CASE kind = "PCI"  -> <<F("function", 1, 1, "int"), F("device", 1, 1, "int")>>
      [] kind = "ACPI" -> <<F("hid", 4, 4, "int"), F("uid", 4, 4, "int")>>
      [] kind = "MAC"  -> <<F("address", 32, 1, "bytes"), F("iftype", 1, 1, "int")>>
      [] kind = "IPv4" -> <<F("local_ip", 4, 1, "bytes"), F("remote_ip", 4, 1, "bytes"),
                            F("local_port", 2, 2, "int"), F("remote_port", 2, 2, "int"),
                            F("protocol", 1, 1, "int"), F("static_ip", 1, 1, "int"),
                            F("gateway_ip", 4, 1, "bytes"), F("subnet_mask", 4, 1, "bytes")>>

\* n rounded up to a multiple of a.
align_up(n, a) == ((n + a - 1) \div a) * a

\* The offset at which field i of fs starts when the fields are laid out in
\* order from offset 0, each at the next multiple of its alignment.
RECURSIVE offset_of(_, _)
offset_of(fs, i) ==
    IF i = 1 THEN 0
    ELSE align_up(offset_of(fs, i - 1) + fs[i - 1].size, fs[i].align)

RECURSIVE MaxAlign(_)
MaxAlign(fs) ==
    IF fs = <<>> THEN 1
    ELSE LET m == MaxAlign(Tail(fs))
         IN  IF Head(fs).align > m THEN Head(fs).align ELSE m

\* size_of::<P>() for a #[repr(C)] struct: the end of the last field, rounded
\* up to the alignment of the struct.
size_ofMutWordPadded(kind) ==
    LET fs == Fields(kind)
    IN  align_up(offset_of(fs, Len(fs)) + fs[Len(fs)].size, 4)

size_of(kind) ==
    LET fs == Fields(kind)
    IN  align_up(offset_of(fs, Len(fs)) + fs[Len(fs)].size, MaxAlign(fs))

\* The sz bytes of the integer n, least significant first.
RECURSIVE le_bytes(_, _)
le_bytes(n, sz) == IF sz = 0 THEN <<>> ELSE <<n % 256>> \o le_bytes(n \div 256, sz - 1)

\* The integer held little-endian in the sz bytes of mem from pointer p on.
RECURSIVE read_int(_, _, _)
read_int(mem, p, sz) ==
    IF sz = 0 THEN 0 ELSE mem[p + 1] + 256 * read_int(mem, p + 1, sz - 1)

\* Payload::len
data_len(v) ==
    CASE v.kind = "unit" -> 0
      [] v.kind = "URI"  -> Len(v.uri)
      [] OTHER           -> size_of(v.kind)

\* The byte at offset k of the memory image of the struct v.
struct_byte(v, k) ==
    LET fs  == Fields(v.kind)
        hit == {i \in 1..Len(fs) : offset_of(fs, i) <= k /\ k < offset_of(fs, i) + fs[i].size}
    IN  IF hit = {} THEN 0
        ELSE LET i == CHOOSE j \in hit : TRUE
                 f == fs[i]
             IN  IF f.ty = "int" THEN le_bytes(v[f.name], f.size)[k - offset_of(fs, i) + 1]
                 ELSE v[f.name][k - offset_of(fs, i) + 1]

\* The data.len() bytes at Payload::ptr, which stamp copies behind the header.
data_bytes(v) ==
    CASE v.kind = "unit" -> <<>>
      [] v.kind = "URI"  -> v.uri
      [] OTHER           -> [k \in 1..data_len(v) |-> struct_byte(v, k - 1)]

\* ---------------------------------------------------- Debug rendering
\* Formatted text is a sequence of characters.
LowerHex == <<"0", "1", "2", "3", "4", "5", "6", "7", "8", "9", "a", "b", "c", "d", "e", "f">>

UpperHex == <<"0", "1", "2", "3", "4", "5", "6", "7", "8", "9", "A", "B", "C", "D", "E", "F">>

\* The digits of n in the given base, most significant first, without padding.
RECURSIVE fmt_radix(_, _, _)
fmt_radix(n, base, digits) ==
    IF n < base THEN <<digits[n + 1]>>
    ELSE fmt_radix(n \div base, base, digits) \o <<digits[(n % base) + 1]>>

\* format!("{:x}", n), format!("{:X}", n) and format!("{}", n) of an unsigned n
fmt_x(n) == fmt_radix(n, 16, LowerHex)

fmt_XMutLower(n) == fmt_radix(n, 16, LowerHex)

fmt_X(n) == fmt_radix(n, 16, UpperHex)

fmt_d(n) == fmt_radix(n, 10, LowerHex)

\* The characters with the codes 64 .. 95.
Chars64 == <<"@", "A", "B", "C", "D", "E", "F", "G", "H", "I", "J", "K", "L", "M", "N", "O",
             "P", "Q", "R", "S", "T", "U", "V", "W", "X", "Y", "Z", "[", "\\", "]", "^", "_">>

\* (64 + n) as u8 as char, for n below 32
char(n) == Chars64[n + 1]

\* The texts ts joined with sep between them.
RECURSIVE join(_, _)
join(ts, sep) ==
    IF ts = <<>> THEN <<>>
    ELSE IF Len(ts) = 1 THEN ts[1]
    ELSE ts[1] \o sep \o join(Tail(ts), sep)

\* Debug for str: the text between double quotes, with quotes and backslashes
\* in it escaped.
RECURSIVE escape(_)
escape(t) ==
    IF t = <<>> THEN <<>>
    ELSE (IF Head(t) \in {"\\", "\""} THEN <<"\\", Head(t)>> ELSE <<Head(t)>>) \o escape(Tail(t))

debug_str(t) == <<"\"">> \o escape(t) \o <<"\"">>

\* Debug for [u8; N]
debug_array(bs) == <<"[">> \o join([i \in 1..Len(bs) |-> fmt_d(bs[i])], <<",", " ">>) \o <<"]">>

\* The values a field of a debug_struct is given: the name of an enum variant
\* (derived Debug), a formatted text, or a nested struct.
Variant(n) == [kind |-> "variant", name |-> n]

Text(t) == [kind |-> "text", chars |-> t]

Struct(n, fs) == [kind |-> "struct", type |-> n, fields |-> fs]

Field(n, v) == [name |-> n, value |-> v]

DeviceTypeName ==
    Hardware :> "Hardware" @@ ACPI :> "ACPI" @@ Messaging :> "Messaging" @@
    Media :> "Media" @@ BIOSBootSpec :> "BIOSBootSpec" @@ End :> "End"

EndPathSubType == EndInstance :> "EndInstance" @@ EndEntire :> "EndEntire"

HardwarePathSubType ==
    PCI :> "PCI" @@ 2 :> "PCCARD" @@ 3 :> "MemoryMapped" @@ 4 :> "Vendor" @@
    5 :> "Controller" @@ 6 :> "BMC"

ACPIPathSubType == 1 :> "ACPI" @@ 2 :> "ExpandedACPI" @@ 3 :> "ADR"

MessagingPathSubType ==
    1 :> "ATAPI" @@ 2 :> "SCSI" @@ 3 :> "FibreChannel" @@ 4 :> "IEEE1394" @@
    5 :> "USB" @@ 6 :> "I20" @@ 9 :> "InfiniBand" @@ 10 :> "Vendor" @@
    MAC :> "MAC" @@ IPv4 :> "IPv4" @@ 13 :> "IPv6" @@ 14 :> "UART" @@
    15 :> "USBClass" @@ 16 :> "WWID" @@ 17 :> "LogicalUnit" @@ 18 :> "SATA" @@
    19 :> "ISCSI" @@ 20 :> "VLAN" @@ 21 :> "FiberChannelEx" @@ 22 :> "SASEx" @@
    23 :> "NVME" @@ URI :> "URI" @@ 25 :> "UFS" @@ 26 :> "SD" @@
    27 :> "Bluetooth" @@ 28 :> "Wireless" @@ 29 :> "EMMC"

MediaPathSubType ==
    1 :> "HardDrive" @@ 2 :> "CDROM" @@ 3 :> "Vendor" @@ 4 :> "File" @@
    5 :> "MediaProtocol" @@ 6 :> "PWIGFirmware" @@ 7 :> "PWIGFirmwareVolume" @@
    8 :> "RelativeOffsetRange" @@ 9 :> "RAMDisk"

BIOSBootSpecPathSubType == 1 :> "V1_01"

HardwareType ==
    Ethernet :> "Ethernet" @@ 2 :> "ExperimentalEthernet" @@ 3 :> "AmateurRadioAX25" @@
    4 :> "ProteonProNetTokenRing" @@ 5 :> "Chaos" @@ IEEE802 :> "IEEE802" @@
    7 :> "ARCNET" @@ 8 :> "Hyperchannel" @@ 9 :> "Lanstar"

\* The variants of IPProtocol the payloads here use.
IPProtocol == TCP :> "TCP" @@ UDP :> "UDP"

StaticIPAddr == 0 :> "DHCP" @@ 1 :> "Static"

\* The sub-type enum of a major type.
SubTypeEnum(dt) ==
    CASE dt = Hardware     -> HardwarePathSubType
      [] dt = ACPI         -> ACPIPathSubType
      [] dt = Messaging    -> MessagingPathSubType
      [] dt = Media        -> MediaPathSubType
      [] dt = BIOSBootSpec -> BIOSBootSpecPathSubType
      [] dt = End          -> EndPathSubType

\* XPathSubType::try_from(sub_type): the variant, or "Err".
try_from(enum, st) == IF st \in DOMAIN enum THEN enum[st] ELSE "Err"

\* The payload struct Debug for DevicePath reads behind the header of a node
\* with the major type dt and the sub-type variant s; "none" where it reads
\* no payload.
Decoded(dt, s) ==
    CASE dt = Hardware /\ s = "PCI"   -> "PCI"
      [] dt = ACPI /\ s = "ACPI"      -> "ACPI"
      [] dt = Messaging /\ s = "MAC"  -> "MAC"
      [] dt = Messaging /\ s = "IPv4" -> "IPv4"
      [] OTHER                        -> "none"

\* Debug for the payload struct kind found at pointer p of mem.
debug_payload(kind, mem, p) ==
    LET fs       == Fields(kind)
        int(i)   == read_int(mem, p + offset_of(fs, i), fs[i].size)
        bytes(i) == SubSeq(mem, p + offset_of(fs, i) + 1, p + offset_of(fs, i) + fs[i].size)
    IN  CASE kind = "PCI" ->
               Struct("PCIDevicePath",
                      <<Field("function", Text(fmt_d(int(1)))),
                        Field("device", Text(fmt_d(int(2))))>>)
          [] kind = "ACPI" ->
               LET hid == int(1)
                   a   == char(hid % 32)
                   b   == char((hid \div 32) % 32)
                   c   == char((hid \div 1024) % 32)
                   n   == (hid \div 65536) % U16Mod
               IN  Struct("ACPIDevicePath",
                          <<Field("hid", Text(debug_str(<<a, b, c>> \o fmt_X(n)))),
                            Field("uid", Text(debug_str(fmt_X(int(2)))))>>)
          [] kind = "MAC" ->
               LET address == bytes(1)
               IN  Struct("MACDevicePath",
                          <<Field("address",
                                  Text(debug_str(join([i \in 1..6 |-> fmt_x(address[i])],
                                                      <<":">>)))),
                            Field("iftype", Variant(HardwareType[int(2)]))>>)
          [] kind = "IPv4" ->
               Struct("IPv4DevicePath",
                      <<Field("local_ip", Text(debug_array(bytes(1)))),
                        Field("remote_ip", Text(debug_array(bytes(2)))),
                        Field("local_port", Text(fmt_d(int(3)))),
                        Field("remote_port", Text(fmt_d(int(4)))),
                        Field("protocol", Variant(IPProtocol[int(5)])),
                        Field("static_ip", Variant(StaticIPAddr[int(6)])),
                        Field("gateway_ip", Text(debug_array(bytes(7)))),
                        Field("subnet_mask", Text(debug_array(bytes(8))))>>)

\* Debug for DevicePath on the node at off of mem, as the fields handed to the
\* debug_struct "DevicePathHeader", in order; err is what the arm of a
\* sub-type that try_from rejects adds.
describeArms(mem, off, err) ==
    LET dt == device_type(mem, off)
        s  == try_from(SubTypeEnum(dt), sub_type(mem, off))
    IN  <<Field("device_type", Variant(DeviceTypeName[dt]))>>
        \o (IF s # "Err"
               THEN <<Field("sub_type", Variant(s))>>
                    \o (IF Decoded(dt, s) # "none"
                           THEN <<Field("data",
                                        debug_payload(Decoded(dt, s), mem, off + HeaderSize))>>
                           ELSE <<>>)
               ELSE err)
        \o <<Field("length", Text(fmt_d(len(mem, off))))>>

describeMutDecodesUnknown(mem, off) ==
    describeArms(mem, off,
                 <<Field("sub_type", Text(fmt_d(sub_type(mem, off)))),
                   Field("data", Text(debug_array(SubSeq(mem, off + HeaderSize + 1,
                                                         off + len(mem, off)))))>>)

describe(mem, off) ==
    describeArms(mem, off, <<Field("sub_type", Text(fmt_d(sub_type(mem, off))))>>)

\* ------------------------------------------- encode a node, then render it
\* The bytes bs followed by zeros up to n bytes.
ZeroPadded(bs, n) == [i \in 1..n |-> IF i <= Len(bs) THEN bs[i] ELSE 0]

\* The payload values handed to create, each with the tag it is given.
PCIValues ==
    {[kind |-> "PCI", dt |-> Hardware, st |-> PCI, function |-> f, device |-> d] :
        f \in {0, 7}, d \in {3, 31}}

ACPIValues ==
    {[kind |-> "ACPI", dt |-> ACPI, st |-> 1, hid |-> h, uid |-> u] :
        h \in {167985616, 17031377, 16739356, 2147483647}, u \in {0, 43981}}

MACValues ==
    {[kind |-> "MAC", dt |-> Messaging, st |-> MAC, address |-> ZeroPadded(a, 32),
      iftype |-> t] :
        a \in {<<2, 0, 0, 0, 0, 1>>, <<222, 173, 190, 239, 0, 10>>,
               <<128, 0, 0, 72, 254, 128, 0, 1>>},
        t \in {Ethernet, IEEE802}}

IPv4Values ==
    {[kind |-> "IPv4", dt |-> Messaging, st |-> IPv4,
      local_ip |-> <<10, 0, 0, 1>>, remote_ip |-> <<192, 168, 1, 200>>,
      local_port |-> lp, remote_port |-> 4011, protocol |-> pr, static_ip |-> si,
      gateway_ip |-> <<10, 0, 0, 254>>, subnet_mask |-> <<255, 255, 255, 0>>] :
        lp \in {0, 68}, pr \in {TCP, UDP}, si \in {0, 1}}

URIValues ==
    {[kind |-> "URI", dt |-> Messaging, st |-> URI, uri |-> u] :
        u \in {<<>>, <<104, 116, 116, 112, 58, 47, 47, 120>>}}

\* create(device_type, sub_type, ()) for every tag under which the renderer
\* reads no payload: every major type with each of the 256 sub-type values.
UnitValues ==
    {[kind |-> "unit", dt |-> t[1], st |-> t[2]] :
        t \in {q \in DeviceType \X (0..255) :
                  Decoded(q[1], try_from(SubTypeEnum(q[1]), q[2])) = "none"}}

DescribeValues ==
    PCIValues \cup ACPIValues \cup MACValues \cup IPv4Values \cup URIValues \cup UnitValues

InitDescribe ==
    /\ heap = [s \in Slots |-> NoBuf]
    /\ fault = FALSE
    /\ StampIdle
    /\ WalkIdle
    /\ BoxIdle
    /\ dval \in DescribeValues
    /\ dmem = <<>>
    /\ dout = <<>>
    /\ dpc = "ready"

\* DevicePath::new1(DevicePathPayload::create(dt, st, payload))
Encode(junk) ==
    /\ dpc = "ready"
    /\ dmem' = new1(create(dval.dt, dval.st, data_bytes(dval)), junk)
    /\ dpc' = "encoded"
    /\ UNCHANGED <<heap, fault, smem, sarg, spc, wmem, wpos, wvisited, wlast, wpc,
                   boxes, freed, dval, dout>>

\* format!("{:?}", path) on the first node of the chain
Describe ==
    /\ dpc = "encoded"
    /\ dout' = describe(dmem, 0)
    /\ dpc' = "described"
    /\ UNCHANGED <<heap, fault, smem, sarg, spc, wmem, wpos, wvisited, wlast, wpc,
                   boxes, freed, dval, dmem>>

NextDescribe ==
    \/ \E j \in Junk : Encode(j)
    \/ Describe

SpecDescribe == InitDescribe /\ [][NextDescribe]_vars

\* ------------------------------------------- builders on long payloads
\* The tags of the nodes with long payloads.
LongTags == {<<Hardware, PCI>>, <<ACPI, 1>>, <<Messaging, URI>>}

LongNodes == {create(t[1], t[2], d) : t \in LongTags, d \in LongPayloads}

\* One past the last byte a stamp call at offset p writes: the four header
\* bytes and then data.len() payload bytes.
stampEnd(p, data) == p + HeaderSize + Len(data)

Max(m, n) == IF m >= n THEN m ELSE n

\* One past the last byte the stamp calls of new, new1 and new2 write into
\* the buffer they allocated.
newEnd(data) == stampEnd(0, data)

new1End(x) ==
    LET xl == payload_len(x)
    IN  Max(stampEnd(0, x.payload), stampEnd(xl, <<>>))

new2End(x, y) ==
    LET xl == payload_len(x)
        yl == payload_len(y)
    IN  Max(stampEnd(0, x.payload), Max(stampEnd(xl, y.payload), stampEnd(xl + yl, <<>>)))

\* The call to make is drawn at the start: the builder, the node with the
\* long payload, a short second node for new2, and what alloc's memory holds.
InitBuild ==
    /\ heap = [s \in Slots |-> NoBuf]
    /\ fault = FALSE
    /\ smem = <<>>
    /\ sarg \in {[op |-> o, x |-> x, y |-> OwnNode, junk |-> j] :
                    o \in {"new", "new1", "new2"}, x \in LongNodes, j \in Junk}
    /\ spc = "idle"
    /\ WalkIdle
    /\ BoxIdle
    /\ DescribeIdle

\* A builder returns the buffer mem after its stamp calls have written up to
\* end.  Writes behind the allocation are undefined behaviour: they end the
\* program, or go unnoticed and the builder returns.
Returns(mem, end, op, x, y) ==
    /\ \/ /\ heap' = [heap EXCEPT !["a"] = Buf(mem, op, x, y, "-", "-")]
          /\ UNCHANGED fault
       \/ /\ end > Len(mem)
          /\ fault' = TRUE
          /\ UNCHANGED heap
    /\ UNCHANGED <<smem, sarg, spc, wmem, wpos, wvisited, wlast, wpc,
                   boxes, freed, dval, dmem, dout, dpc>>

BuildNew ==
    /\ ~fault
    /\ sarg.op = "new"
    /\ heap["a"].state = "none"
    /\ LET x == sarg.x
       IN  Returns(new(x.path.device_type, x.path.sub_type, x.payload, sarg.junk),
                   newEnd(x.payload), "new", x, NoNode)

BuildNew1 ==
    /\ ~fault
    /\ sarg.op = "new1"
    /\ heap["a"].state = "none"
    /\ Returns(new1(sarg.x, sarg.junk), new1End(sarg.x), "new1", sarg.x, NoNode)

BuildNew2 ==
    /\ ~fault
    /\ sarg.op = "new2"
    /\ heap["a"].state = "none"
    /\ Returns(new2(sarg.x, sarg.y, sarg.junk), new2End(sarg.x, sarg.y),
               "new2", sarg.x, sarg.y)

NextBuild == BuildNew \/ BuildNew1 \/ BuildNew2

SpecBuild == InitBuild /\ [][NextBuild]_vars

\* ------------------------------------------------ the allocator failing
\* alloc returns a null pointer when it cannot provide the buffer.  The
\* builders hand it to NonNull::new_unchecked without a test and stamp
\* through it, which is undefined behaviour: the write at address 0 ends the
\* program, or lands in whatever memory is mapped there and the builder
\* returns a DevicePathBox around the null pointer.
allocNull(bs, h) ==
    \/ /\ boxes' = [bs EXCEPT ![h] = "aborted"]
       /\ fault' = TRUE
    \/ /\ boxes' = [bs EXCEPT ![h] = "null"]
       /\ UNCHANGED fault

\* let h = DevicePath::new(..), new1(..) or new2(..), the allocator failing
OwnBuildNull(h) ==
    /\ ~fault
    /\ boxes[h] = "unset"
    /\ allocNull(boxes, h)
    /\ UNCHANGED <<heap, smem, sarg, spc, wmem, wpos, wvisited, wlast, wpc,
                   freed, dval, dmem, dout, dpc>>

\* let h = DevicePath::append(&ha, &hb), the allocator failing after the two
\* walks have measured the chains
OwnAppendNull(h, ha, hb, ga, gb) ==
    /\ ~fault
    /\ boxes[h] = "unset"
    /\ boxes[ha] \in Slots
    /\ boxes[hb] \in Slots
    /\ appendDefined(heap[boxes[ha]].mem \o ga, heap[boxes[hb]].mem \o gb)
    /\ allocNull(boxes, h)
    /\ UNCHANGED <<heap, smem, sarg, spc, wmem, wpos, wvisited, wlast, wpc,
                   freed, dval, dmem, dout, dpc>>

NextAlloc ==
    \/ NextOwn
    \/ \E h \in Handles : OwnBuildNull(h)
    \/ \E h \in Handles, ha \in Handles, hb \in Handles, ga \in Behind, gb \in Behind :
          OwnAppendNull(h, ha, hb, ga, gb)

SpecAlloc == InitOwn /\ [][NextAlloc]_vars

\* ------------------------------------------------------------------ claims
\* total_length as the two length bytes of the header at off give it.
TotalAt(mem, off) == mem[off + 3] + 256 * mem[off + 4]

\* The node at off: its major type, its sub-type and its payload bytes.
NodeAt(mem, off) ==
    <<mem[off + 1], mem[off + 2], SubSeq(mem, off + HeaderSize + 1, off + TotalAt(mem, off))>>

\* The nodes walk visits from the first node of mem, in order.
VisitedNodes(mem) ==
    LET offs == walk(mem, 0).offs
    IN  [i \in 1..Len(offs) |-> NodeAt(mem, offs[i])]

\* Every node walk visits lies inside mem, payload included.
VisitedInside(mem) ==
    LET offs == walk(mem, 0).offs
    IN  \A i \in 1..Len(offs) : offs[i] + TotalAt(mem, offs[i]) <= Len(mem)

Given(x) == <<x.path.device_type, x.path.sub_type, x.payload>>

Terminator == <<End, EndEntire, <<>>>>

LastOf(q) == q[Len(q)]

AllButLast(q) == SubSeq(q, 1, Len(q) - 1)

\* A chain of the data model: the walk from its first node stays inside the
\* buffer and ends on a terminator, End/EndEntire with no payload.
IsChain(mem) ==
    /\ walk(mem, 0).st = "end"
    /\ VisitedInside(mem)
    /\ LastOf(VisitedNodes(mem)) = Terminator
    /\ TotalAt(mem, LastOf(walk(mem, 0).offs)) = HeaderSize

\* A node on which next is terminal: End with a sub-type other than EndInstance.
Terminal(x) == x.path.device_type = End /\ x.path.sub_type # EndInstance

\* The nodes a builder call was given.
GivenList(b) == IF b.op = "new2" THEN <<b.x, b.y>> ELSE <<b.x>>

RECURSIVE SumSizes(_)
SumSizes(xs) ==
    IF xs = <<>> THEN 0 ELSE HeaderSize + Len(Head(xs).payload) + SumSizes(Tail(xs))

Appended == heap["r"].state = "live" /\ heap["r"].op = "append"
ChainA == heap[heap["r"].a].mem
ChainB == heap[heap["r"].b].mem
ChainR == heap["r"].mem

\* C1: for every chain returned by new, new1 or new2, for every tag and
\* payload, walk from the first node visits finitely many nodes, all inside the
\* allocated buffer, and the last node visited is End/EndEntire.
C1_TerminatorInvariant ==
    \A s \in Built :
        heap[s].state = "live" =>
            /\ walk(heap[s].mem, 0).st = "end"
            /\ VisitedInside(heap[s].mem)
            /\ LET n == LastOf(VisitedNodes(heap[s].mem))
               IN  n[1] = End /\ n[2] = EndEntire

\* C2: for all chains A and B, walking append(A, B) visits A's non-terminator
\* nodes in their order, then immediately every node of B in order, ending with
\* B's terminator; A's terminator is not visited.
C2_AppendWalk ==
    (Appended /\ IsChain(ChainA) /\ IsChain(ChainB)) =>
        LET wa == walk(ChainA, 0).offs
            wb == walk(ChainB, 0).offs
            La == LastOf(wa)
        IN  /\ walk(ChainR, 0).st = "end"
            /\ VisitedNodes(ChainR) =
                  AllButLast(VisitedNodes(ChainA)) \o VisitedNodes(ChainB)
            /\ walk(ChainR, 0).offs =
                  AllButLast(wa) \o [i \in 1..Len(wb) |-> La + wb[i]]
            /\ LastOf(VisitedNodes(ChainR)) = Terminator

C2_Witness ==
    /\ Appended /\ IsChain(ChainA) /\ IsChain(ChainB)
    /\ heap["r"].a # heap["r"].b
    /\ Len(walk(ChainA, 0).offs) = 3
    /\ Len(walk(ChainB, 0).offs) = 2
    /\ Len(walk(ChainR, 0).offs) = 4

\* C3: append(A, B) allocates chain_byte_length(A) + chain_byte_length(B) - 4
\* bytes; the first chain_byte_length(A) - 4 bytes of the result are A's leading
\* bytes and the following chain_byte_length(B) bytes are B's bytes.
C3_AppendBytes ==
    (Appended /\ walk(ChainA, 0).st = "end" /\ walk(ChainB, 0).st = "end") =>
        LET alen == chain_byte_length(ChainA)
            blen == chain_byte_length(ChainB)
        IN  /\ heap["r"].size = alen + blen - 4
            /\ Len(ChainR) = heap["r"].size
            /\ \A i \in 1..(alen - 4) : ChainR[i] = ChainA[i]
            /\ \A i \in 1..blen : ChainR[alen - 4 + i] = ChainB[i]

C3_Witness ==
    /\ Appended /\ walk(ChainA, 0).st = "end" /\ walk(ChainB, 0).st = "end"
    /\ heap["r"].a = "a" /\ heap["r"].b = "b"
    /\ heap["a"].op = "new2" /\ heap["b"].op = "new1"
    /\ chain_byte_length(ChainA) > 8
    /\ chain_byte_length(ChainB) > 4
    /\ ChainA # ChainB

\* C4, as stated: with La the byte length of A without its terminator and Lb
\* the full byte length of B, append(A, B) is a chain of byte length
\* La + Lb - 4.
C4_Original ==
    (Appended /\ IsChain(ChainA) /\ IsChain(ChainB)) =>
        LET La == chain_byte_length(ChainA) - 4
            Lb == chain_byte_length(ChainB)
        IN  chain_byte_length(ChainR) = La + Lb - 4

\* C4, amended: with La the byte length of A without its terminator and Lb the
\* full byte length of B, append(A, B) is a chain of byte length La + Lb.
C4_AppendLength ==
    (Appended /\ IsChain(ChainA) /\ IsChain(ChainB)) =>
        LET La == chain_byte_length(ChainA) - 4
            Lb == chain_byte_length(ChainB)
        IN  /\ IsChain(ChainR)
            /\ chain_byte_length(ChainR) = La + Lb
            /\ Len(ChainR) = La + Lb

C4_Witness ==
    /\ Appended /\ IsChain(ChainA) /\ IsChain(ChainB)
    /\ chain_byte_length(ChainA) - 4 > 0
    /\ chain_byte_length(ChainB) > 4
    /\ chain_byte_length(ChainR) =
          chain_byte_length(ChainA) - 4 + chain_byte_length(ChainB)

C7_BuildSingle ==
    \A s \in Built :
        heap[s].op \in {"new", "new1"} =>
            LET n == Len(heap[s].x.payload)
                m == heap[s].mem
            IN  /\ heap[s].size = 4 + n + 4
                /\ Len(m) = heap[s].size
                /\ NodeAt(m, 0) = Given(heap[s].x)
                /\ TotalAt(m, 0) = 4 + n
                /\ <<m[4 + n + 1], m[4 + n + 2], m[4 + n + 3], m[4 + n + 4]>> =
                      <<End, EndEntire, 4, 0>>

\* C8: stamp at a buffer offset writes byte 0 = major type, byte 1 = sub-type,
\* bytes 2-3 = 4 + len(payload) in little-endian, then the payload bytes in
\* order, and no other byte of the buffer.
C8_StampLayout ==
    spc = "done" =>
        LET p == sarg.p
            n == Len(sarg.data)
        IN  /\ Len(smem) = Len(sarg.mem)
            /\ smem[p + 1] = sarg.dt
            /\ smem[p + 2] = sarg.st
            /\ smem[p + 3] = (4 + n) % 256
            /\ smem[p + 4] = (4 + n) \div 256
            /\ \A i \in 1..n : smem[p + 4 + i] = sarg.data[i]
            /\ \A i \in 1..Len(smem) :
                  (i <= p \/ i > p + 4 + n) => smem[i] = sarg.mem[i]

C8_Witness ==
    /\ spc = "done"
    /\ sarg.p > 0
    /\ Len(sarg.data) = BigStampLen
    /\ smem[sarg.p + 4] = 1
    /\ smem[sarg.p + 4 + BigStampLen] = sarg.data[BigStampLen]
    /\ smem[sarg.p] = sarg.mem[sarg.p]

\* The header fields of the node next was last applied to.
LastType == wmem[wlast.from + 1]
LastSub == wmem[wlast.from + 2]
LastTotal == wmem[wlast.from + 3] + 256 * wmem[wlast.from + 4]

\* C9: next returns "no further node" on End/EndEntire and on End with a
\* sub-type that is neither EndInstance nor EndEntire; for End/EndInstance and
\* for every non-End major type it returns the node at offset + total_length.
C9_NextCases ==
    wlast.from # None =>
        /\ (LastType = End /\ LastSub = EndEntire) => wlast.to = None
        /\ (LastType = End /\ LastSub \notin {EndInstance, EndEntire}) =>
              wlast.to = None
        /\ (LastType = End /\ LastSub = EndInstance) =>
              wlast.to = wlast.from + LastTotal
        /\ LastType # End => wlast.to = wlast.from + LastTotal

C9_Witness ==
    /\ wpc = "done"
    /\ Len(wvisited) = 2
    /\ wmem[1] = End /\ wmem[2] = EndInstance
    /\ LastType = End /\ LastSub \notin {EndInstance, EndEntire}
    /\ wlast.to = None

\* C10, as stated: next treats an End node whose sub-type is anything other
\* than EndEntire, values that are neither EndInstance nor EndEntire included,
\* as "continue": it returns the node at offset + total_length.
C10_Original ==
    (wlast.from # None /\ LastType = End /\ LastSub # EndEntire) =>
        wlast.to = wlast.from + LastTotal

\* C10, amended: next treats an End node as "continue" only when its sub-type
\* is EndInstance; for every other sub-type of End, EndEntire and the values
\* EndPathSubType does not name alike, it returns "no further node".
C10_EndContinuesOnlyOnInstance ==
    (wlast.from # None /\ LastType = End) =>
        IF LastSub = EndInstance
            THEN wlast.to = wlast.from + LastTotal
            ELSE wlast.to = None

C10_Witness ==
    /\ wpc = "done"
    /\ LastType = End /\ LastSub # EndEntire /\ LastSub # EndInstance
    /\ wlast.to = None
    /\ headerInside(wmem, wlast.from + LastTotal)

\* ---------------------------------------------------------------- C11..C20
\* The handles holding the box of the buffer at s.
Holders(s) == {h \in Handles : boxes[h] = s}

StrictlyIncreasing(q) == \A i \in 1..(Len(q) - 1) : q[i] < q[i + 1]

\* C12: walk from any start node terminates: the offsets it yields are each
\* strictly greater than the one before and each is next of the one before,
\* every one of them is the offset of a header inside the region, and the
\* walk stops at the first node for which next is terminal.  Offsets that
\* rise strictly inside a finite region are finitely many; a repeated offset
\* or a header outside the region is a walk that does not end this way.
C12_WalkTerminates ==
    /\ StrictlyIncreasing(wvisited)
    /\ \A i \in 1..(Len(wvisited) - 1) :
          /\ next(wmem, wvisited[i]) = wvisited[i + 1]
          /\ headerInside(wmem, wvisited[i + 1])
    /\ wlast.to # None => wlast.to > wlast.from
    /\ wpc \in {"visit", "done"}
    /\ wpc = "done" => next(wmem, wvisited[Len(wvisited)]) = None

\* The value of a digit character.
DigitValue(c) == CHOOSE d \in 0..15 : LowerHex[d + 1] = c \/ UpperHex[d + 1] = c

\* The number a text of digits denotes in the given base.
RECURSIVE parse_radix(_, _)
parse_radix(t, base) ==
    IF t = <<>> THEN 0
    ELSE parse_radix(SubSeq(t, 1, Len(t) - 1), base) * base + DigitValue(t[Len(t)])

\* The names of the fields of a rendering, in order.
FieldNames(fs) == [i \in 1..Len(fs) |-> fs[i].name]

\* The sub-types the enum of the major type dt knows.
KnownSubTypes(dt) == DOMAIN SubTypeEnum(dt)

\* C13: rendering a node of any known major type with any of the 256 sub-type
\* values gives a result (the major type first, the sub-type second, the
\* length last); when the sub-type is not one the major type knows, the
\* sub-type is given as its raw number and there is no decoded payload field.
C13_UnknownSubTypeRaw ==
    dpc = "described" =>
        /\ Len(dout) >= 3
        /\ dout[1] = Field("device_type", Variant(DeviceTypeName[dval.dt]))
        /\ dout[2].name = "sub_type"
        /\ dout[Len(dout)].name = "length"
        /\ dval.st \notin KnownSubTypes(dval.dt) =>
              /\ FieldNames(dout) = <<"device_type", "sub_type", "length">>
              /\ dout[2].value.kind = "text"
              /\ parse_radix(dout[2].value.chars, 10) = dval.st

\* A Media node with the sub-type 99 has been rendered, with "99" for it.
C13_Witness ==
    /\ dpc = "described"
    /\ dval.dt = Media
    /\ dval.st = 99
    /\ dout[2].value.chars = <<"9", "9">>

\* The fields of a rendering named n.
FieldsNamed(fs, n) == {i \in 1..Len(fs) : fs[i].name = n}

\* The text between the quotes of a rendered string, escapes undone.
RECURSIVE unescape(_)
unescape(t) ==
    IF t = <<>> THEN <<>>
    ELSE IF Head(t) = "\\" /\ Len(t) >= 2 THEN <<t[2]>> \o unescape(SubSeq(t, 3, Len(t)))
    ELSE <<Head(t)>> \o unescape(Tail(t))

unquote(t) == unescape(SubSeq(t, 2, Len(t) - 1))

\* The pieces of t between the occurrences of the character sep.
RECURSIVE split(_, _)
split(t, sep) ==
    IF \A i \in 1..Len(t) : t[i] # sep THEN <<t>>
    ELSE LET k == CHOOSE i \in 1..Len(t) : t[i] = sep /\ \A j \in 1..(i - 1) : t[j] # sep
         IN  <<SubSeq(t, 1, k - 1)>> \o split(SubSeq(t, k + 1, Len(t)), sep)

\* t without the blanks in it.
RECURSIVE unblank(_)
unblank(t) ==
    IF t = <<>> THEN <<>>
    ELSE (IF Head(t) = " " THEN <<>> ELSE <<Head(t)>>) \o unblank(Tail(t))

\* The numbers of a rendered array "[a, b, ...]".
parse_array(t) ==
    LET ps == split(unblank(SubSeq(t, 2, Len(t) - 1)), ",")
    IN  [i \in 1..Len(ps) |-> parse_radix(ps[i], 10)]

\* The discriminant of the variant an enum names n.
Discriminant(enum, n) == CHOOSE k \in DOMAIN enum : enum[k] = n

\* The position of the letter c among the characters 64 .. 95.
Letter(c) == (CHOOSE i \in 1..32 : Chars64[i] = c) - 1

\* The value the rendering f shows for a field of the payload struct kind.
Shown(kind, f) ==
    CASE f.name \in {"function", "device", "local_port", "remote_port"} ->
             parse_radix(f.value.chars, 10)
      [] f.name \in {"local_ip", "remote_ip", "gateway_ip", "subnet_mask"} ->
             parse_array(f.value.chars)
      [] f.name = "protocol"  -> Discriminant(IPProtocol, f.value.name)
      [] f.name = "static_ip" -> Discriminant(StaticIPAddr, f.value.name)
      [] f.name = "iftype"    -> Discriminant(HardwareType, f.value.name)
      [] f.name = "uid"       -> parse_radix(unquote(f.value.chars), 16)
      [] f.name = "hid" ->
             LET t == unquote(f.value.chars)
             IN  Letter(t[1]) + 32 * Letter(t[2]) + 1024 * Letter(t[3])
                 + 65536 * parse_radix(SubSeq(t, 4, Len(t)), 16)
      [] f.name = "address" ->
             LET ps == split(unquote(f.value.chars), ":")
             IN  ZeroPadded([i \in 1..Len(ps) |-> parse_radix(ps[i], 16)], 32)

\* The field names of the payload table for a supported tag, in order.
TableFields(kind) ==
    IF kind = "URI" THEN <<"uri">>
    ELSE LET fs == Fields(kind) IN [i \in 1..Len(fs) |-> fs[i].name]

\* C14: for every supported tag (Hardware/PCI, ACPI/ACPI, Messaging/MAC,
\* Messaging/IPv4, Messaging/URI) and every payload value, the rendering of
\* the encoded node has one payload entry; its fields are the fields of the
\* payload table, in that order, and each shows the value that was encoded.
C14_DescribeRoundTrip ==
    dpc = "described" /\ dval.kind \in {"PCI", "ACPI", "MAC", "IPv4", "URI"} =>
        /\ Cardinality(FieldsNamed(dout, "data")) = 1
        /\ LET data == dout[CHOOSE i \in FieldsNamed(dout, "data") : TRUE].value
           IN  /\ data.kind = "struct"
               /\ FieldNames(data.fields) = TableFields(dval.kind)
               /\ \A i \in 1..Len(data.fields) :
                     Shown(dval.kind, data.fields[i]) = dval[data.fields[i].name]

\* The digits t with zeros put before them up to w digits.
RECURSIVE zero_padded(_, _)
zero_padded(t, w) == IF Len(t) >= w THEN t ELSE zero_padded(<<"0">> \o t, w)

\* The address text of a rendered Messaging/MAC node, without its quotes.
RenderedAddress ==
    LET data == dout[CHOOSE i \in FieldsNamed(dout, "data") : TRUE].value
    IN  unquote(data.fields[1].value.chars)

\* C15: the rendering of a Messaging/MAC node gives the address as hex octets
\* separated by colons, two hex digits for each octet; the address bytes
\* 02,00,00,00,00,01 are rendered as 02:00:00:00:00:01.
C15_MacTwoDigitOctets ==
    dpc = "described" /\ dval.kind = "MAC" =>
        /\ \A p \in {split(RenderedAddress, ":")[i] : i \in 1..6} : Len(p) = 2
        /\ RenderedAddress =
              join([i \in 1..6 |-> zero_padded(fmt_radix(dval.address[i], 16, LowerHex), 2)],
                   <<":">>)
        /\ SubSeq(dval.address, 1, 6) = <<2, 0, 0, 0, 0, 1>> =>
              RenderedAddress = <<"0", "2", ":", "0", "0", ":", "0", "0", ":",
                                  "0", "0", ":", "0", "0", ":", "0", "1">>

\* The sum of the field widths of a fixed-shape payload.
RECURSIVE SumWidths(_)
SumWidths(fs) == IF fs = <<>> THEN 0 ELSE Head(fs).size + SumWidths(Tail(fs))

\* C16: the encoded payload length of each fixed-shape payload is the sum of
\* its field widths, so that total_length is 6 for PCI, 12 for ACPI, 37 for
\* MAC and 26 for IPv4; for URI the payload length is the byte length of the
\* string and total_length is 4 more.
C16_PayloadLengths ==
    dpc \in {"encoded", "described"} /\ dval.kind # "unit" =>
        LET total == len(dmem, 0)
        IN  /\ dval.kind # "URI" =>
                  /\ data_len(dval) = SumWidths(Fields(dval.kind))
                  /\ total = HeaderSize + SumWidths(Fields(dval.kind))
            /\ dval.kind = "PCI"  => total = 6
            /\ dval.kind = "ACPI" => total = 12
            /\ dval.kind = "MAC"  => total = 37
            /\ dval.kind = "IPv4" => total = 26
            /\ dval.kind = "URI"  =>
                  /\ data_len(dval) = Len(dval.uri)
                  /\ total = HeaderSize + Len(dval.uri)

\* A MAC payload has been encoded, in a node of 37 bytes.
C16_Witness ==
    /\ dpc = "encoded"
    /\ dval.kind = "MAC"
    /\ len(dmem, 0) = 37

\* C17: once a build or an append has returned a chain, no step changes a
\* byte of the chain's buffer for as long as the buffer is allocated.
C17_BufferImmutable ==
    [][\A s \in Slots :
          heap[s].state = "live" /\ heap'[s].state = "live" => heap'[s].mem = heap[s].mem]_vars

\* The step hands h a chain no handle held before and no builder made: h is
\* given the result of an append.
AppendReturned(h) ==
    /\ boxes[h] = "unset"
    /\ boxes'[h] \in Slots
    /\ \A g \in Handles : boxes[g] # boxes'[h]
    /\ heap'[boxes'[h]].op \notin {"new", "new1", "new2"}

\* C18: append(A, B) returns a handle to a buffer that was not allocated
\* before the call and is neither A's nor B's; it leaves every other buffer,
\* A's and B's among them, as it was (same bytes, still allocated), frees
\* nothing, and leaves every other handle holding what it held.
C18_AppendFrame ==
    [][\A h \in Handles : AppendReturned(h) =>
          LET r == boxes'[h]
          IN  /\ heap[r].state = "none"
              /\ heap'[r].state = "live"
              /\ heap'[r].op = "append"
              /\ heap[heap'[r].a].state = "live"
              /\ heap[heap'[r].b].state = "live"
              /\ r \notin {heap'[r].a, heap'[r].b}
              /\ \A s \in Slots \ {r} : heap'[s] = heap[s]
              /\ freed' = freed
              /\ \A g \in Handles \ {h} : boxes'[g] = boxes[g]]_vars

\* An append of two different chains has returned; since then A was freed by
\* dropping its own handle, and B and the result are still allocated.
C18_Witness ==
    \E r \in Slots :
        /\ heap[r].op = "append"
        /\ heap[r].state = "live"
        /\ heap[r].a # heap[r].b
        /\ heap[heap[r].a].state = "freed"
        /\ Len(freed[heap[r].a]) = 1
        /\ heap[heap[r].b].state = "live"
        /\ freed[r] = <<>>

\* C19: encoding a node whose payload is longer than 65531 bytes fails before
\* anything is written, and a node that is written has a total_length field
\* of 4 + len(payload).
C19_PayloadTooLarge ==
    spc = "done" =>
        /\ Len(sarg.data) > U16Mod - HeaderSize - 1 => smem = alloc(Len(smem), sarg.junk)
        /\ smem # alloc(Len(smem), sarg.junk) =>
              len(smem, sarg.p) = HeaderSize + Len(sarg.data)

\* C20: during a traversal, reading the header of a node whose total_length
\* is below 4 fails with InvalidLength, and reading a header where fewer than
\* 4 bytes of the buffer remain fails with TruncatedHeader; the traversal
\* never advances by a total_length below 4 and never reads a header outside
\* the buffer.
C20_HeaderValidated ==
    /\ wlast.to # None => wlast.to - wlast.from >= HeaderSize
    /\ wpc # "oob"
    /\ (\E i \in 1..Len(wvisited) : TotalAt(wmem, wvisited[i]) < HeaderSize) =>
          wpc = "InvalidLength"
    /\ ~headerInside(wmem, wpos) => wpc = "TruncatedHeader"

\* ---------------------------------------------------------------- C21..C26
\* C24: every dealloc call a drop makes on a buffer passes the size and the
\* alignment that the alloc call which created that buffer was given.
C24_DeallocLayoutMatches ==
    \A s \in Slots :
        \A i \in 1..Len(freed[s]) :
            /\ freed[s][i].size = heap[s].size
            /\ freed[s][i].align = heap[s].align

\* The text of the field n of a rendered ACPI/ACPI payload, without its quotes.
RenderedACPI(n) ==
    LET data == dout[CHOOSE i \in FieldsNamed(dout, "data") : TRUE].value
    IN  unquote(data.fields[CHOOSE i \in FieldsNamed(data.fields, n) : TRUE].value.chars)

\* The w bits of v from bit lo upwards.
Bits(v, lo, w) == (v \div (2 ^ lo)) % (2 ^ w)

\* t is a number in uppercase hex digits.
IsUpperHexNumber(t) ==
    /\ t # <<>>
    /\ \A i \in 1..Len(t) : \E d \in 1..16 : UpperHex[d] = t[i]

\* C26: the rendering of an ACPI/ACPI node gives hid as three characters and
\* a hex number: the characters have the codes 64 plus bits 0-4, 64 plus bits
\* 5-9 and 64 plus bits 10-14 of hid, in that order, and the number is bits
\* 16-31 of hid in uppercase hex; uid is given in uppercase hex.
C26_AcpiHidRendering ==
    dpc = "described" /\ dval.kind = "ACPI" =>
        LET hid == RenderedACPI("hid")
            uid == RenderedACPI("uid")
            num == SubSeq(hid, 4, Len(hid))
        IN  /\ Len(hid) >= 4
            /\ 64 + Letter(hid[1]) = 64 + Bits(dval.hid, 0, 5)
            /\ 64 + Letter(hid[2]) = 64 + Bits(dval.hid, 5, 5)
            /\ 64 + Letter(hid[3]) = 64 + Bits(dval.hid, 10, 5)
            /\ IsUpperHexNumber(num)
            /\ parse_radix(num, 16) = Bits(dval.hid, 16, 16)
            /\ IsUpperHexNumber(uid)
            /\ parse_radix(uid, 16) = dval.uid

\* The hid 0x0A0341D0 with the uid 0xABCD has been rendered, as PNPA03 and ABCD.
C26_Witness ==
    /\ dpc = "described"
    /\ dval.kind = "ACPI"
    /\ dval.hid = 167985616
    /\ dval.uid = 43981
    /\ RenderedACPI("hid") = <<"P", "N", "P", "A", "0", "3">>
    /\ RenderedACPI("uid") = <<"A", "B", "C", "D">>

\* The bytes of the chain that starts at the first byte of mem.
ChainBytes(mem) == SubSeq(mem, 1, chain_byte_length(mem))

\* The empty chain: a terminator of four bytes and nothing before it.
IsEmptyChain(mem) == IsChain(mem) /\ chain_byte_length(mem) = HeaderSize

\* C25: appending with the empty chain E is an identity: for every chain X,
\* append(E, X) and append(X, E) each return a buffer of chain_byte_length(X)
\* bytes that is equal to X byte for byte.
C25_AppendEmptyIdentity ==
    (Appended /\ IsChain(ChainA) /\ IsChain(ChainB)) =>
        /\ IsEmptyChain(ChainA) =>
              /\ heap["r"].size = chain_byte_length(ChainB)
              /\ ChainR = ChainBytes(ChainB)
        /\ IsEmptyChain(ChainB) =>
              /\ heap["r"].size = chain_byte_length(ChainA)
              /\ ChainR = ChainBytes(ChainA)

\* A chain of two ordinary nodes, with payloads, has been appended with the
\* lone terminator that new(End, EndEntire, ()) returns, on its right.
C25_Witness ==
    /\ Appended
    /\ heap["r"].a = "a" /\ heap["r"].b = "b"
    /\ heap["b"].op = "new" /\ heap["b"].mem = <<End, EndEntire, 4, 0>>
    /\ heap["a"].op = "new2" /\ IsChain(ChainA)
    /\ Len(VisitedNodes(ChainA)) = 3
    /\ chain_byte_length(ChainA) > 12
    /\ ChainR = ChainA

\* The same with the lone terminator on the left.
C25_WitnessLeft ==
    /\ Appended
    /\ heap["r"].a = "b" /\ heap["r"].b = "a"
    /\ heap["b"].op = "new" /\ heap["b"].mem = <<End, EndEntire, 4, 0>>
    /\ heap["a"].op = "new2" /\ IsChain(ChainA) /\ IsChain(ChainB)
    /\ Len(VisitedNodes(ChainB)) = 3
    /\ ChainR = ChainB

\* The buffer at s was built by new1 or new2.
ByNew12(s) == heap[s].state = "live" /\ heap[s].op \in {"new1", "new2"}

\* The buffer at s came out of new1, new2 and append calls only.
ByNew12Append(s) ==
    \/ ByNew12(s)
    \/ /\ heap[s].state = "live" /\ heap[s].op = "append"
       /\ ByNew12(heap[s].a) /\ ByNew12(heap[s].b)

\* The nodes that were given to the builder calls the buffer at s came out of.
GivenTo(s) ==
    IF heap[s].op = "append"
    THEN GivenList(heap[heap[s].a]) \o GivenList(heap[heap[s].b])
    ELSE GivenList(heap[s])

\* C22, as stated: for every chain that came out of new1, new2 and append
\* calls, whatever the tags of the nodes given (End nodes included), the sum
\* of len() over the nodes walk visits from its first node is the number of
\* bytes allocated for its buffer.
C22_Original ==
    \A s \in Slots :
        ByNew12Append(s) =>
            /\ walk(heap[s].mem, 0).st = "end"
            /\ chain_byte_length(heap[s].mem) = heap[s].size

\* One past the last byte written by the builder call the buffer b came out of.
WrittenEnd(b) ==
    CASE b.op = "new"  -> newEnd(b.x.payload)
      [] b.op = "new1" -> new1End(b.x)
      [] b.op = "new2" -> new2End(b.x, b.y)

\* The header and payload bytes of the nodes given to the builder call the
\* buffer b came out of, and the terminator new1 and new2 add.
NeededSize(b) == SumSizes(GivenList(b)) + (IF b.op = "new" THEN 0 ELSE HeaderSize)

\* C23: every byte written by new, new1 and new2 lies inside the buffer the
\* call allocated, for every payload length: the allocation is not smaller
\* than the header and payload bytes stamp copies plus the terminator.
C23_WritesInsideAllocation ==
    \A s \in Slots :
        (heap[s].state = "live" /\ heap[s].op \in {"new", "new1", "new2"}) =>
            /\ WrittenEnd(heap[s]) <= heap[s].size
            /\ heap[s].size >= NeededSize(heap[s])

\* C21: when the allocator fails during a build or an append, the call
\* reports an allocation failure, writes nothing and returns no handle: the
\* handle the result was meant for holds neither a box around the null
\* pointer, made after writing through it, nor the place of a call that
\* ended the program.
C21_AllocFailureReported ==
    \A h \in Handles : boxes[h] \notin {"null", "aborted"}

====
